---- MODULE Spec2Model ----
(***************************************************************************)
(* Model of idoklad2fakturoid.py: a one-pass batch driver that loads a     *)
(* pickle cache, reads a JSON export of iDoklad invoices, makes sure the   *)
(* Fakturoid subject list is cached, and converts and submits the invoices *)
(* one by one.  Exceptions are modelled as values: every function returns  *)
(* a Result, [exc, val], where val is <<>> when the call raised and <<v>>  *)
(* when it returned v.                                                     *)
(***************************************************************************)
EXTENDS Integers, Sequences, FiniteSets, TLC

VARIABLES
    cacheFile,          \* content of CACHE_FILE on disk
    cacheFile0,         \* history: content of CACHE_FILE when the run started
    inputFile,          \* content of args.idoklad_invoices_json
    pc,                 \* position of the __main__ block
    cache,              \* the dict `cache`
    idoklad_invoices,   \* idoklad_invoices['Data']
    fakturoid_subjects, \* the list `fakturoid_subjects` (<<>> until bound)
    i,                  \* number of loop iterations started
    exc,                \* the uncaught exception that ended the run, or NoExc
    log,                \* history: prints, file accesses and HTTP calls, in order
    fetched,            \* history: <<body>> of the subjects response, <<>> if none
    convArgs,           \* history: subject lists passed to convert_invoice
    conv,               \* history: Result of the last convert_invoice call
    lpc,                \* position of the convert_invoice_lines harness
    litems,             \* IssuedInvoiceItems given to convert_invoice_lines
    lines               \* what convert_invoice_lines returned

vars == <<cacheFile, cacheFile0, inputFile, pc, cache, idoklad_invoices,
          fakturoid_subjects, i, exc, log, fetched, convArgs, conv,
          lpc, litems, lines>>

driverVars == <<cacheFile, cacheFile0, inputFile, pc, cache, idoklad_invoices,
                fakturoid_subjects, i, exc, log, fetched, convArgs, conv>>

linesVars == <<lpc, litems, lines>>

(***************************************************************************)
(* Bounds of the model.                                                    *)
(***************************************************************************)
MaxSubjects == 2

MaxInvoices == 2

MaxItems == 2

(***************************************************************************)
(* Generic helpers.                                                        *)
(***************************************************************************)
SeqsUpTo(S, n) == UNION {[1..k -> S] : k \in 0..n}

\* A dict as a set of <<key, value>> pairs with distinct keys.
EmptyDict == {}

HasKey(d, k) == \E p \in d : p[1] = k

Get(d, k) == (CHOOSE p \in d : p[1] = k)[2]

Put(d, k, v) == {p \in d : p[1] # k} \cup {<<k, v>>}

NoExc == [type |-> "none", msg |-> "", arg |-> "", status |-> 0]

Return(v) == [exc |-> NoExc, val |-> <<v>>]

Raise(e) == [exc |-> e, val |-> <<>>]

Raised(r) == r.exc # NoExc

Event(ev, what, doc, status) ==
    [ev |-> ev, what |-> what, doc |-> doc, status |-> status]

PrintEv(what, doc) == Event("print", what, doc, 0)

(***************************************************************************)
(* Program constants.                                                      *)
(***************************************************************************)
SUBJECTS_KEY == "fakturoid_subjects"

HTTP_OK == 200

HTTP_CREATED == 201

(***************************************************************************)
(* Values of the input domain.                                             *)
(***************************************************************************)
RegNos == {"27074358", "45317054"}

SubjectIds == {101, 102}

Subjects == [id : SubjectIds, registration_no : RegNos]

SubjectLists == SeqsUpTo(Subjects, MaxSubjects)

PaymentCodes == {"B", "H"}

DocNumbers == {"20160001", "20160002"}

ROUNDING_CODE == "ZaokPol"

ItemCodes == {ROUNDING_CODE, "SLUZBA"}

Items ==
    [Code : ItemCodes, TotalPrice : {-1, 0, 1}, Name : {"Prace", "Zaokrouhleni"},
     Amount : {2}, UnitPrice : {1}, VatRate : {21}]

ItemLists == SeqsUpTo(Items, MaxItems)

\* The item list carried by the invoices of a driver run: a service line and a
\* rounding line of total 0.
DriverItems ==
    << [Code |-> "SLUZBA", TotalPrice |-> 1, Name |-> "Prace",
        Amount |-> 2, UnitPrice |-> 1, VatRate |-> 21],
       [Code |-> ROUNDING_CODE, TotalPrice |-> 0, Name |-> "Zaokrouhleni",
        Amount |-> 2, UnitPrice |-> 1, VatRate |-> 21] >>

\* An invoice of the export, reduced to the fields whose handling can fail or
\* filter; the fields convert_invoice copies unchanged (VariableSymbol,
\* OrderNumber, dates, notes, Iban, Swift, Currency, ExchangeRate) are left out.
MakeInvoice(doc, regno, code, items) ==
    [DocumentNumber |-> doc,
     Purchaser |-> [IdentificationNumber |-> regno],
     MyCompanyDocumentAddress |-> [AccountNumber |-> "2000123456",
                                   BankNumberCode |-> "2010"],
     PaymentOption |-> [Code |-> code],
     IssuedInvoiceItems |-> items]

Invoices ==
    {MakeInvoice(d, r, c, DriverItems) : d \in DocNumbers, r \in RegNos, c \in PaymentCodes}

InvoiceLists == SeqsUpTo(Invoices, MaxInvoices)

(***************************************************************************)
(* Exceptions.                                                             *)
(***************************************************************************)
\* Exception(MESSAGES['subject_not_found'], registration_no)
SubjectNotFound(registration_no) ==
    [type |-> "Exception", msg |-> "subject_not_found", arg |-> registration_no, status |-> 0]

\* Exception(MESSAGES['unknown_payment_method'], idoklad_code)
UnknownPaymentMethod(idoklad_code) ==
    [type |-> "Exception", msg |-> "unknown_payment_method", arg |-> idoklad_code, status |-> 0]

\* Exception(MESSAGES['request_failed'], method, path, status_code, text)
RequestFailed(method, path, status_code) ==
    [type |-> "Exception", msg |-> "request_failed", arg |-> method \o " " \o path,
     status |-> status_code]

\* What str.join raises when it is not given exactly one argument.
JoinTypeError ==
    [type |-> "TypeError", msg |-> "join() takes exactly one argument", arg |-> "", status |-> 0]

\* What open() or json.load raise on an input file that cannot be read.
InputError(kind) ==
    [type |-> IF kind = "missing" THEN "IOError" ELSE "ValueError",
     msg |-> "input", arg |-> kind, status |-> 0]

(***************************************************************************)
(* The converter.                                                          *)
(***************************************************************************)
make_fakturoid_payment_method(idoklad_code) ==
    IF idoklad_code = "B"
    THEN Return("bank")
    ELSE Raise(UnknownPaymentMethod(idoklad_code))

RECURSIVE FindFrom(_, _, _)
FindFrom(fakturoid_subjects_, registration_no, k) ==
    IF k > Len(fakturoid_subjects_)
    THEN Raise(SubjectNotFound(registration_no))
    ELSE IF fakturoid_subjects_[k].registration_no = registration_no
         THEN Return(fakturoid_subjects_[k].id)
         ELSE FindFrom(fakturoid_subjects_, registration_no, k + 1)

\* Variant: the scan falls off the end of the list without raising.
find_fakturoid_subject_id_NoRaise(fakturoid_subjects_, registration_no) ==
    LET r == FindFrom(fakturoid_subjects_, registration_no, 1)
    IN  IF Raised(r) THEN Return(0) ELSE r

find_fakturoid_subject_id(fakturoid_subjects_, registration_no) ==
    FindFrom(fakturoid_subjects_, registration_no, 1)

\* sep.join(iterable), the iterable being a sequence of strings.
RECURSIVE JoinStrings(_, _)
JoinStrings(sep, strs) ==
    IF Len(strs) = 0 THEN ""
    ELSE IF Len(strs) = 1 THEN strs[1]
    ELSE strs[1] \o sep \o JoinStrings(sep, Tail(strs))

\* A call sep.join(*args): str.join accepts exactly one positional argument.
StrJoin(sep, args) ==
    IF Len(args) # 1
    THEN Raise(JoinTypeError)
    ELSE Return(JoinStrings(sep, args[1]))

ConvertLine(item) ==
    [name |-> item.Name, quantity |-> item.Amount,
     unit_price |-> item.UnitPrice, vat_rate |-> item.VatRate]

\* Variant: the filter looks at the code alone.
SkipsItem_CodeOnly(item) == item.Code = ROUNDING_CODE

SkipsItem(item) == item.Code = ROUNDING_CODE /\ item.TotalPrice = 0

RECURSIVE LinesFrom(_, _, _)
LinesFrom(items, k, acc) ==
    IF k > Len(items) THEN acc
    ELSE IF SkipsItem(items[k])
         THEN LinesFrom(items, k + 1, acc)
         ELSE LinesFrom(items, k + 1, Append(acc, ConvertLine(items[k])))

convert_invoice_lines(idoklad_invoice) ==
    LinesFrom(idoklad_invoice.IssuedInvoiceItems, 1, <<>>)

\* The arguments line 113-116 hands to "/".join: two strings, not one sequence.
BankAccountJoinArgs(idoklad_invoice) ==
    << idoklad_invoice.MyCompanyDocumentAddress.AccountNumber,
       idoklad_invoice.MyCompanyDocumentAddress.BankNumberCode >>

\* The dict display is evaluated entry by entry; the first entry that raises
\* ends the call.
convert_invoice(idoklad_invoice, fakturoid_subjects_) ==
    LET subject_id == find_fakturoid_subject_id(
                          fakturoid_subjects_,
                          idoklad_invoice.Purchaser.IdentificationNumber)
        bank_account == StrJoin("/", BankAccountJoinArgs(idoklad_invoice))
        payment_method == make_fakturoid_payment_method(idoklad_invoice.PaymentOption.Code)
    IN  IF Raised(subject_id) THEN Raise(subject_id.exc)
        ELSE IF Raised(bank_account) THEN Raise(bank_account.exc)
        ELSE IF Raised(payment_method) THEN Raise(payment_method.exc)
        ELSE Return([number |-> idoklad_invoice.DocumentNumber,
                     subject_id |-> subject_id.val[1],
                     bank_account |-> bank_account.val[1],
                     payment_method |-> payment_method.val[1],
                     language |-> "en",
                     lines |-> convert_invoice_lines(idoklad_invoice)])

(***************************************************************************)
(* The remote client: what each method makes of the HTTP response.         *)
(***************************************************************************)
get_subjects(resp) ==
    IF resp.status_code = HTTP_OK
    THEN Return(resp.json)
    ELSE Raise(RequestFailed("GET", "/subjects.json", resp.status_code))

create_invoice(resp) ==
    IF resp.status_code = HTTP_CREATED
    THEN Return(resp.json)
    ELSE Raise(RequestFailed("POST", "/invoices.json", resp.status_code))

\* Status codes the service answers with.
GetStatuses == {200, 401, 503}

PostStatuses == {201, 422}

(***************************************************************************)
(* The files of a run.                                                     *)
(***************************************************************************)
CacheFiles ==
    {[kind |-> "absent", table |-> EmptyDict], [kind |-> "corrupt", table |-> EmptyDict],
     [kind |-> "pickle", table |-> EmptyDict]}
    \cup {[kind |-> "pickle", table |-> {<<SUBJECTS_KEY, s>>}] : s \in SubjectLists}

InputFiles ==
    {[kind |-> "missing", Data |-> <<>>], [kind |-> "malformed", Data |-> <<>>]}
    \cup {[kind |-> "json", Data |-> d] : d \in InvoiceLists}

\* pickle.load(open(CACHE_FILE, 'rb'))
pickle_load(file) ==
    IF file.kind = "absent"
    THEN Raise([type |-> "IOError", msg |-> "cache", arg |-> "absent", status |-> 0])
    ELSE IF file.kind = "corrupt"
    THEN Raise([type |-> "UnpicklingError", msg |-> "cache", arg |-> "corrupt", status |-> 0])
    ELSE Return(file.table)

\* pickle.dump(cache, open(CACHE_FILE, 'wb'))
pickle_dump(table) == [kind |-> "pickle", table |-> table]

(***************************************************************************)
(* The __main__ block.  pc names the statement about to run; the run has   *)
(* ended when pc = "done" (exit status 0) or exc # NoExc (an uncaught      *)
(* exception, raised by the statement pc names).                           *)
(***************************************************************************)
\* Variant: the subject list is ensured before the input file is read.
StepAfter_FetchFirst(p) ==
    CASE p = "load_cache"      -> "fetch_subjects"
      [] p = "fetch_subjects"  -> "read_input"
      [] p = "read_input"      -> "create_invoices"
      [] p = "create_invoices" -> "done"
      [] OTHER                 -> p

StepAfter(p) ==
    CASE p = "load_cache"      -> "read_input"
      [] p = "read_input"      -> "fetch_subjects"
      [] p = "fetch_subjects"  -> "create_invoices"
      [] p = "create_invoices" -> "done"
      [] OTHER                 -> p

Running(p) == pc = p /\ exc = NoExc

\* Variant: only IOError is caught around the load.
LoadCache_NoCatchAll ==
    /\ Running("load_cache")
    /\ LET r == pickle_load(cacheFile)
       IN  IF Raised(r) /\ r.exc.type # "IOError"
           THEN /\ exc' = r.exc
                /\ log' = log \o <<PrintEv("loading_cache", ""), Event("file", "cache_read", "", 0)>>
                /\ UNCHANGED <<cache, pc>>
           ELSE /\ cache' = IF Raised(r) THEN EmptyDict ELSE r.val[1]
                /\ log' = log \o <<PrintEv("loading_cache", ""), Event("file", "cache_read", "", 0)>>
                /\ pc' = StepAfter(pc)
                /\ exc' = exc
    /\ UNCHANGED <<cacheFile, cacheFile0, inputFile, idoklad_invoices, fakturoid_subjects,
                   i, fetched, convArgs, conv, linesVars>>

LoadCache ==
    /\ Running("load_cache")
    /\ LET r == pickle_load(cacheFile)
           warn == Raised(r) /\ r.exc.type # "IOError"
       IN  /\ cache' = IF Raised(r) THEN EmptyDict ELSE r.val[1]
           /\ log' = log \o <<PrintEv("loading_cache", ""), Event("file", "cache_read", "", 0)>>
                         \o (IF warn THEN <<PrintEv("warning_cache_load_failed", "")>> ELSE <<>>)
    /\ pc' = StepAfter(pc)
    /\ UNCHANGED <<cacheFile, cacheFile0, inputFile, idoklad_invoices, fakturoid_subjects,
                   i, exc, fetched, convArgs, conv, linesVars>>

ReadInput ==
    /\ Running("read_input")
    /\ log' = Append(log, Event("file", "input_read", "", 0))
    /\ IF inputFile.kind = "json"
       THEN /\ idoklad_invoices' = inputFile.Data
            /\ pc' = StepAfter(pc)
            /\ exc' = exc
       ELSE /\ exc' = InputError(inputFile.kind)
            /\ UNCHANGED <<idoklad_invoices, pc>>
    /\ UNCHANGED <<cacheFile, cacheFile0, inputFile, cache, fakturoid_subjects,
                   i, fetched, convArgs, conv, linesVars>>

\* Variant: the cached list is ignored.
NeedsFetch_Always(table) == TRUE

NeedsFetch(table) == ~HasKey(table, SUBJECTS_KEY)

UseCachedSubjects ==
    /\ Running("fetch_subjects")
    /\ ~NeedsFetch(cache)
    /\ fakturoid_subjects' = Get(cache, SUBJECTS_KEY)
    /\ pc' = StepAfter(pc)
    /\ UNCHANGED <<cacheFile, cacheFile0, inputFile, cache, idoklad_invoices,
                   i, exc, log, fetched, convArgs, conv, linesVars>>

\* Variant: the fetched list is not saved.
LoadSubjects_NoSave ==
    /\ Running("fetch_subjects")
    /\ ~HasKey(cache, SUBJECTS_KEY)
    /\ \E status \in GetStatuses, body \in SubjectLists :
         LET r == get_subjects([status_code |-> status, json |-> body])
             call == <<PrintEv("loading_subjects", ""), Event("GET", "/subjects.json", "", status)>>
         IN  IF Raised(r)
             THEN /\ exc' = r.exc
                  /\ log' = log \o call
                  /\ UNCHANGED <<cache, fakturoid_subjects, fetched, pc>>
             ELSE /\ cache' = Put(cache, SUBJECTS_KEY, r.val[1])
                  /\ fakturoid_subjects' = Get(cache', SUBJECTS_KEY)
                  /\ fetched' = <<r.val[1]>>
                  /\ log' = log \o call
                  /\ pc' = StepAfter(pc)
                  /\ exc' = exc
    /\ UNCHANGED <<cacheFile, cacheFile0, inputFile, idoklad_invoices, i, convArgs, conv,
                   linesVars>>

LoadSubjects ==
    /\ Running("fetch_subjects")
    /\ NeedsFetch(cache)
    /\ \E status \in GetStatuses, body \in SubjectLists :
         LET r == get_subjects([status_code |-> status, json |-> body])
             call == <<PrintEv("loading_subjects", ""), Event("GET", "/subjects.json", "", status)>>
         IN  IF Raised(r)
             THEN /\ exc' = r.exc
                  /\ log' = log \o call
                  /\ UNCHANGED <<cache, cacheFile, fakturoid_subjects, fetched, pc>>
             ELSE /\ cache' = Put(cache, SUBJECTS_KEY, r.val[1])
                  /\ cacheFile' = pickle_dump(cache')
                  /\ fakturoid_subjects' = Get(cache', SUBJECTS_KEY)
                  /\ fetched' = <<r.val[1]>>
                  /\ log' = log \o call \o <<Event("file", "cache_write", "", 0)>>
                  /\ pc' = StepAfter(pc)
                  /\ exc' = exc
    /\ UNCHANGED <<cacheFile0, inputFile, idoklad_invoices, i, convArgs, conv, linesVars>>

\* Variant: a record that cannot be converted is skipped.
ProcessInvoice_SkipAndContinue ==
    /\ Running("create_invoices")
    /\ i < Len(idoklad_invoices)
    /\ LET idoklad_invoice == idoklad_invoices[i + 1]
           progress == PrintEv("processing", idoklad_invoice.DocumentNumber)
           c == convert_invoice(idoklad_invoice, fakturoid_subjects)
       IN  /\ i' = i + 1
           /\ convArgs' = Append(convArgs, fakturoid_subjects)
           /\ conv' = c
           /\ IF Raised(c)
              THEN /\ exc' = exc
                   /\ log' = Append(log, progress)
              ELSE \E status \in PostStatuses :
                     LET post == Event("POST", "/invoices.json", c.val[1].number, status)
                         r == create_invoice([status_code |-> status,
                                              json |-> [number |-> c.val[1].number]])
                     IN  /\ exc' = r.exc
                         /\ log' = log \o <<progress, post>>
                                       \o (IF Raised(r) THEN <<>>
                                           ELSE <<PrintEv("created", r.val[1].number)>>)
    /\ UNCHANGED <<cacheFile, cacheFile0, inputFile, pc, cache, idoklad_invoices,
                   fakturoid_subjects, fetched, linesVars>>

ProcessInvoice ==
    /\ Running("create_invoices")
    /\ i < Len(idoklad_invoices)
    /\ LET idoklad_invoice == idoklad_invoices[i + 1]
           progress == PrintEv("processing", idoklad_invoice.DocumentNumber)
           c == convert_invoice(idoklad_invoice, fakturoid_subjects)
       IN  /\ i' = i + 1
           /\ convArgs' = Append(convArgs, fakturoid_subjects)
           /\ conv' = c
           /\ IF Raised(c)
              THEN /\ exc' = c.exc
                   /\ log' = Append(log, progress)
              ELSE \E status \in PostStatuses :
                     LET post == Event("POST", "/invoices.json", c.val[1].number, status)
                         \* the service answers with the invoice it created
                         r == create_invoice([status_code |-> status,
                                              json |-> [number |-> c.val[1].number]])
                     IN  /\ exc' = r.exc
                         /\ log' = log \o <<progress, post>>
                                       \o (IF Raised(r) THEN <<>>
                                           ELSE <<PrintEv("created", r.val[1].number)>>)
    /\ UNCHANGED <<cacheFile, cacheFile0, inputFile, pc, cache, idoklad_invoices,
                   fakturoid_subjects, fetched, linesVars>>

Finish ==
    /\ Running("create_invoices")
    /\ i = Len(idoklad_invoices)
    /\ log' = Append(log, PrintEv("done", ""))
    /\ pc' = StepAfter(pc)
    /\ UNCHANGED <<cacheFile, cacheFile0, inputFile, cache, idoklad_invoices,
                   fakturoid_subjects, i, exc, fetched, convArgs, conv, linesVars>>

(***************************************************************************)
(* A harness that applies convert_invoice_lines to any item list.          *)
(***************************************************************************)
ApplyConvertInvoiceLines ==
    /\ lpc = "ready"
    /\ lines' = convert_invoice_lines(MakeInvoice("20160001", "27074358", "B", litems))
    /\ lpc' = "returned"
    /\ UNCHANGED <<litems, driverVars>>

(***************************************************************************)
(* Specifications.                                                         *)
(***************************************************************************)
DriverStart(cf, inf, p) ==
    /\ cacheFile = cf
    /\ cacheFile0 = cf
    /\ inputFile = inf
    /\ pc = p
    /\ cache = EmptyDict
    /\ idoklad_invoices = <<>>
    /\ fakturoid_subjects = <<>>
    /\ i = 0
    /\ exc = NoExc
    /\ log = <<>>
    /\ fetched = <<>>
    /\ convArgs = <<>>
    /\ conv = [exc |-> NoExc, val |-> <<>>]

Init ==
    /\ \E cf \in CacheFiles, inf \in InputFiles : DriverStart(cf, inf, "load_cache")
    /\ lpc = "idle"
    /\ litems = <<>>
    /\ lines = <<>>

Next == LoadCache \/ ReadInput \/ UseCachedSubjects \/ LoadSubjects \/ ProcessInvoice \/ Finish

Spec == Init /\ [][Next]_vars

InitLines ==
    /\ DriverStart([kind |-> "absent", table |-> EmptyDict],
                   [kind |-> "missing", Data |-> <<>>], "idle")
    /\ lpc = "ready"
    /\ litems \in ItemLists
    /\ lines = <<>>

NextLines == ApplyConvertInvoiceLines

SpecLines == InitLines /\ [][NextLines]_vars

(***************************************************************************)
(* Vocabulary of the properties.                                           *)
(***************************************************************************)
Ended == pc = "done" \/ exc # NoExc

Gets == {k \in 1..Len(log) : log[k].ev = "GET"}

Posts == {k \in 1..Len(log) : log[k].ev = "POST"}

Writes == {k \in 1..Len(log) : log[k].ev = "file" /\ log[k].what = "cache_write"}

InputReads == {k \in 1..Len(log) : log[k].ev = "file" /\ log[k].what = "input_read"}

Printed(what) == {k \in 1..Len(log) : log[k].ev = "print" /\ log[k].what = what}

\* The events of one kind, in the order they happened.
OnlyPosts(e) == e.ev = "POST"

OnlyProgress(e) == e.ev = "print" /\ e.what = "processing"

DocOf(k) == idoklad_invoices[k].DocumentNumber

RegNoOf(k) == idoklad_invoices[k].Purchaser.IdentificationNumber

CodeOf(k) == idoklad_invoices[k].PaymentOption.Code

\* The table the run started with, as the load step leaves it.
LoadedCache == IF cacheFile0.kind = "pickle" THEN cacheFile0.table ELSE {}

WarmStart == HasKey(LoadedCache, SUBJECTS_KEY)

\* The subject list is bound: the run has passed line 169.
SubjectsBound == pc \in {"create_invoices", "done"}

Known(regno) == \E k \in 1..Len(fakturoid_subjects) : fakturoid_subjects[k].registration_no = regno

FailedInLoop == pc = "create_invoices" /\ exc # NoExc

(***************************************************************************)
(* C1: abort on first failure.  A record whose conversion fails ends the   *)
(* run with that very exception; when the run has failed at record i, no   *)
(* step follows, every record before i was submitted exactly once and      *)
(* accepted, in input order, the progress lines are those of records 1..i, *)
(* exactly i conversions were made, at most record i itself was submitted  *)
(* after them, and "Done." was not printed.                                *)
(***************************************************************************)
C1_AbortOnFirstFailure ==
    /\ Raised(conv) => FailedInLoop /\ exc = conv.exc
    /\ FailedInLoop =>
         LET posts == SelectSeq(log, OnlyPosts)
             progress == SelectSeq(log, OnlyProgress)
         IN  /\ ~ENABLED Next
             /\ i \in 1..Len(idoklad_invoices)
             /\ Len(convArgs) = i
             /\ Len(progress) = i
             /\ \A k \in 1..i : progress[k].doc = DocOf(k)
             /\ Len(posts) \in {i - 1, i}
             /\ \A k \in 1..(i - 1) : posts[k].doc = DocOf(k) /\ posts[k].status = HTTP_CREATED
             /\ Len(posts) = i => posts[i].status # HTTP_CREATED /\ ~Raised(conv)
             /\ Len(posts) = i - 1 => Raised(conv)
             /\ Cardinality(Printed("created")) = i - 1
             /\ Printed("done") = {}

C1_Witness == FailedInLoop /\ i = 1 /\ Len(idoklad_invoices) = 2 /\ Known(RegNoOf(1))

SuccessLoopLog(k) ==
    << PrintEv("processing", DocOf(k)),
       Event("POST", "/invoices.json", DocOf(k), HTTP_CREATED),
       PrintEv("created", DocOf(k)) >>

RECURSIVE SuccessLog(_)
SuccessLog(n) == IF n = 0 THEN <<>> ELSE SuccessLog(n - 1) \o SuccessLoopLog(n)

(***************************************************************************)
(* C2: success path.  When every record names a purchaser of the subject   *)
(* list and the recognized payment code, and the service rejected no       *)
(* submission, the run ends with "Done." after a progress line, one        *)
(* accepted create_invoice call and a confirmation line per record, in     *)
(* input order.                                                            *)
(***************************************************************************)
C2_SuccessPath ==
    ( /\ Ended
      /\ SubjectsBound
      /\ \A k \in 1..Len(idoklad_invoices) : Known(RegNoOf(k)) /\ CodeOf(k) = "B"
      /\ \A p \in Posts : log[p].status = HTTP_CREATED )
    => /\ pc = "done"
       /\ LET n == 3 * Len(idoklad_invoices) + 1
          IN  /\ Len(log) >= n
              /\ SubSeq(log, Len(log) - n + 1, Len(log))
                   = SuccessLog(Len(idoklad_invoices)) \o <<PrintEv("done", "")>>

(***************************************************************************)
(* C3: an invoice whose purchaser registration number is the               *)
(* registration_no of no subject of the list cannot be converted: the call *)
(* raises subject_not_found with that number, whatever the payment code;   *)
(* when the driver reaches such a record the run ends with that exception  *)
(* right after the record's progress line, with no create_invoice call.    *)
(***************************************************************************)
C3_SubjectNotFound ==
    SubjectsBound =>
      \A k \in 1..Len(idoklad_invoices) :
        ~Known(RegNoOf(k)) =>
          /\ convert_invoice(idoklad_invoices[k], fakturoid_subjects)
               = Raise(SubjectNotFound(RegNoOf(k)))
          /\ k <= i =>
               /\ k = i
               /\ exc = SubjectNotFound(RegNoOf(k))
               /\ log[Len(log)] = PrintEv("processing", DocOf(k))
               /\ Cardinality(Posts) = 0

C3_Witness ==
    /\ FailedInLoop
    /\ i = 1
    /\ ~Known(RegNoOf(1))
    /\ CodeOf(1) = "H"
    /\ fakturoid_subjects # <<>>

(***************************************************************************)
(* C4: the subjects fetch is issued at most once in a run, and not at all  *)
(* when the loaded cache table holds the subjects key; every conversion    *)
(* is then given exactly the cached list.                                  *)
(***************************************************************************)
C4_FetchAtMostOnce ==
    /\ Cardinality(Gets) <= 1
    /\ WarmStart =>
         /\ Gets = {}
         /\ SubjectsBound => fakturoid_subjects = Get(LoadedCache, SUBJECTS_KEY)
         /\ \A k \in 1..Len(convArgs) : convArgs[k] = Get(LoadedCache, SUBJECTS_KEY)

C4_Witness ==
    /\ WarmStart
    /\ Get(LoadedCache, SUBJECTS_KEY) # <<>>
    /\ Len(convArgs) = 1
    /\ Gets = {}

ColdFile == cacheFile0.kind \in {"absent", "corrupt"}

CacheLoadSurvived ==
    /\ ~(pc = "load_cache" /\ exc # NoExc)
    /\ pc \in {"read_input", "fetch_subjects"} => cache = EmptyDict
    /\ pc # "load_cache" =>
         (Printed("warning_cache_load_failed") # {} <=> cacheFile0.kind = "corrupt")

(***************************************************************************)
(* C5 as stated: a run whose cache file is absent or cannot be             *)
(* deserialized is not ended by the load, goes on with an empty table,     *)
(* warns only in the corrupt case, and has fetched the subject list        *)
(* exactly once by the time it ends.                                       *)
(***************************************************************************)
C5_Original ==
    ColdFile => /\ CacheLoadSurvived
                /\ Ended => Cardinality(Gets) = 1

(***************************************************************************)
(* C5 amended: a run whose cache file is absent or cannot be deserialized  *)
(* is not ended by the load, goes on with an empty table and warns only in *)
(* the corrupt case; it then fetches the subject list exactly once         *)
(* provided the input file could be read, and not at all when reading the  *)
(* input file failed, because the input is read before the fetch.          *)
(***************************************************************************)
C5_CacheLoadNeverAborts ==
    ColdFile => /\ CacheLoadSurvived
                /\ Ended /\ inputFile.kind = "json" => Cardinality(Gets) = 1
                /\ Ended /\ inputFile.kind # "json" => Gets = {}

C5_Witness ==
    /\ cacheFile0.kind = "corrupt"
    /\ Ended
    /\ Printed("warning_cache_load_failed") # {}
    /\ Cardinality(Gets) = 1
    /\ i = 1

(***************************************************************************)
(* C6: for every invoice whose purchaser is found in the subject list,     *)
(* convert_invoice raises unknown_payment_method with the code when the    *)
(* payment code is not "B", and returns a record whose payment_method is   *)
(* "bank" when it is "B".                                                  *)
(***************************************************************************)
C6_PaymentMethod ==
    SubjectsBound =>
      \A k \in 1..Len(idoklad_invoices) :
        Known(RegNoOf(k)) =>
          LET c == convert_invoice(idoklad_invoices[k], fakturoid_subjects)
          IN  IF CodeOf(k) = "B"
              THEN ~Raised(c) /\ c.val[1].payment_method = "bank"
              ELSE c = Raise(UnknownPaymentMethod(CodeOf(k)))

FirstMatch(regno) ==
    CHOOSE k \in 1..Len(fakturoid_subjects) :
      /\ fakturoid_subjects[k].registration_no = regno
      /\ \A j \in 1..(k - 1) : fakturoid_subjects[j].registration_no # regno

(***************************************************************************)
(* C7: for every invoice with the recognized payment code whose purchaser  *)
(* registration number occurs in the subject list, convert_invoice returns *)
(* a record whose subject_id is the id of the first subject of the list    *)
(* with that registration number.                                          *)
(***************************************************************************)
C7_SubjectId ==
    SubjectsBound =>
      \A k \in 1..Len(idoklad_invoices) :
        Known(RegNoOf(k)) /\ CodeOf(k) = "B" =>
          LET c == convert_invoice(idoklad_invoices[k], fakturoid_subjects)
          IN  /\ ~Raised(c)
              /\ c.val[1].subject_id = fakturoid_subjects[FirstMatch(RegNoOf(k))].id

Retained(item) == ~(item.Code = "ZaokPol" /\ item.TotalPrice = 0)

(***************************************************************************)
(* C8: convert_invoice_lines returns the items for which not (Code =       *)
(* "ZaokPol" and TotalPrice = 0), in their original order, each as the     *)
(* destination line made of its name, amount, unit price and VAT rate.     *)
(***************************************************************************)
C8_LineFilter ==
    lpc = "returned" =>
      LET kept == SelectSeq(litems, Retained)
      IN  /\ Len(lines) = Len(kept)
          /\ \A j \in 1..Len(kept) :
               lines[j] = [name |-> kept[j].Name, quantity |-> kept[j].Amount,
                           unit_price |-> kept[j].UnitPrice, vat_rate |-> kept[j].VatRate]
          /\ Len(lines) = Cardinality({k \in 1..Len(litems) :
                                         litems[k].Code # "ZaokPol" \/ litems[k].TotalPrice # 0})

C8_Witness ==
    /\ lpc = "returned"
    /\ Len(litems) = 2
    /\ litems[1].Code = "ZaokPol" /\ litems[1].TotalPrice = 0
    /\ litems[2].Code = "ZaokPol" /\ litems[2].TotalPrice = 1
    /\ Len(lines) = 1
    /\ lines[1].name = litems[2].Name

(***************************************************************************)
(* C9 as stated: whenever the input file is read in a cold-start run, the  *)
(* remote subjects fetch has already been issued.                          *)
(***************************************************************************)
C9_Original ==
    \A r \in InputReads : ~WarmStart => \E g \in Gets : g < r

(***************************************************************************)
(* C9 amended: the driver reads the input file before it ensures the       *)
(* subject list is cached: every subjects fetch and every cache write      *)
(* comes after the read of the input file, and a run whose input file      *)
(* cannot be read ends with no fetch issued and the cache file untouched.  *)
(***************************************************************************)
C9_InputReadBeforeFetch ==
    /\ \A g \in Gets \cup Writes : \E r \in InputReads : r < g
    /\ pc = "read_input" /\ exc # NoExc => Gets = {} /\ Writes = {} /\ cacheFile = cacheFile0
    /\ SubjectsBound => InputReads # {}

C9_Witness ==
    /\ ~WarmStart
    /\ inputFile.kind = "malformed"
    /\ pc = "read_input"
    /\ exc # NoExc
    /\ Gets = {}

(***************************************************************************)
(* C10: the cache file is written exactly when the loaded table lacked the *)
(* subjects key and the subjects fetch was answered 200; the write comes   *)
(* right after the fetch and before any create_invoice call, is the only   *)
(* write of the run, and stores the loaded table with the fetched list     *)
(* under the subjects key.  With the key cached, or the fetch answered     *)
(* otherwise, the file keeps its content, and after a failed fetch the run *)
(* has ended with request_failed and no create_invoice call.               *)
(***************************************************************************)
C10_CacheWriteDiscipline ==
    /\ Cardinality(Writes) <= 1
    /\ Writes # {} <=> (~WarmStart /\ \E g \in Gets : log[g].status = HTTP_OK)
    /\ \A w \in Writes :
         /\ w - 1 \in Gets
         /\ log[w - 1].status = HTTP_OK
         /\ \A p \in Posts : w < p
         /\ fetched # <<>>
         /\ cacheFile = [kind |-> "pickle",
                         table |-> LoadedCache \cup {<<SUBJECTS_KEY, fetched[1]>>}]
         /\ fakturoid_subjects = fetched[1]
    /\ Writes = {} => cacheFile = cacheFile0
    /\ \A g \in Gets :
         log[g].status # HTTP_OK =>
           /\ Posts = {}
           /\ cacheFile = cacheFile0
           /\ exc = RequestFailed("GET", "/subjects.json", log[g].status)
           /\ ~ENABLED Next

C10_Witness ==
    /\ cacheFile0.kind = "corrupt"
    /\ Writes # {}
    /\ cacheFile # cacheFile0
    /\ fetched # <<>>
    /\ fetched[1] # <<>>
    /\ i = 1

====
